---- MODULE Spec2Model ----
(***************************************************************************)
(* Model of CircleLimit.cpp: the PoincareTexture class (hyperbolic lattice, *)
(* projection to the Poincare disk, geodesic circles, parity rasteriser)    *)
(* and the keyboard handler that drives it.                                 *)
(*                                                                          *)
(* float values are modelled as fixed-point integers with FixDigits decimal *)
(* digits (value * FixScale); cosf, sinf, sinh and cosh are tabulated at    *)
(* the arguments the program uses.                                          *)
(***************************************************************************)
EXTENDS Integers, Sequences, FiniteSets, TLC

VARIABLES width, height, hyperbolicPoints, poincarePoints, circles,
          texture, filteringMode, data, isAnimating, lastCall, mathCalls

vars == <<width, height, hyperbolicPoints, poincarePoints, circles,
          texture, filteringMode, data, isAnimating, lastCall, mathCalls>>

textureVars == <<width, height, hyperbolicPoints, poincarePoints, circles,
                 texture, mathCalls>>

----------------------------------------------------------------------------
(* Bounds of the model *)

\* the keyboard model keeps the resolution within MaxResSteps steps of the initial one
MaxResSteps == 4
\* the keyboard model keeps the star within MaxSlim presses of 'h'/'H' of its initial shape
MaxSlim == 1
\* largest width and height of the textures built through the class interface
MaxDim == 4
\* grids up to FullGrid pixels per axis are rasterised pixel by pixel
FullGrid == 16
\* larger grids are rasterised at ProbesPerAxis evenly spaced rows and columns
ProbesPerAxis == 4

----------------------------------------------------------------------------
(* Program constants *)

InitialWidth == 300
InitialHeight == 300
ResolutionStep == 100
SlimStep == 10
NumDirections == 9

----------------------------------------------------------------------------
(* Fixed-point arithmetic standing for float *)

FixDigits == 3
FixScale == 10 ^ FixDigits

Abs(a) == IF a < 0 THEN 0 - a ELSE a
Sgn(a) == IF a < 0 THEN 0 - 1 ELSE 1

\* a * b for fixed-point a, b (split so that no intermediate product overflows)
MulFix(a, b) ==
    Sgn(a) * Sgn(b) *
    ((Abs(a) \div FixScale) * Abs(b) + ((Abs(a) % FixScale) * Abs(b)) \div FixScale)

RECURSIVE DivDigits(_, _, _, _)
DivDigits(rem, b, n, acc) ==
    IF n = 0 THEN acc
    ELSE DivDigits((rem * 10) % b, b, n - 1, acc * 10 + (rem * 10) \div b)

\* a / b for fixed-point a, b (long division, one decimal digit at a time)
DivFix(a, b) ==
    Sgn(a) * Sgn(b) * DivDigits(Abs(a) % Abs(b), Abs(b), FixDigits, Abs(a) \div Abs(b))

\* (float) n
FromInt(n) == n * FixScale

\* powf(a, 2) and pow(a, 2), kept at double scale (FixScale^2)
Pow2(a) == a * a

SqrtMax == 2 ^ 13

RECURSIVE SqrtSearch(_, _, _)
SqrtSearch(n, lo, hi) ==
    IF lo >= hi THEN lo
    ELSE LET mid == (lo + hi) \div 2
         IN IF mid * mid >= n THEN SqrtSearch(n, lo, mid)
                              ELSE SqrtSearch(n, mid + 1, hi)

\* sqrtf(a) and sqrt(a) of a double-scale argument, rounded up to the next fixed-point value
Sqrt(n) == SqrtSearch(n, 0, SqrtMax)

\* cosf(i * 40 * M_PI / 180) and sinf(i * 40 * M_PI / 180), i = 0..8
CosTable == <<1000, 766, 174, -500, -940, -940, -500, 174, 766>>
SinTable == <<0, 643, 985, 866, 342, -342, -866, -985, -643>>
\* sinh(dh) and cosh(dh), dh = 0.5, 1.5, ..., 5.5
SinhTable == <<521, 2129, 6050, 16543, 45003, 122344>>
CoshTable == <<1128, 2352, 6132, 16573, 45014, 122348>>

DhFirst == FixScale \div 2
DhLast == 5 * FixScale + FixScale \div 2
DhIndex(dh) == (dh - DhFirst) \div FixScale + 1
sinh(dh) == SinhTable[DhIndex(dh)]
cosh(dh) == CoshTable[DhIndex(dh)]

vec2(x, y) == [x |-> x, y |-> y]
vec3(x, y, z) == [x |-> x, y |-> y, z |-> z]
vec4(r, g, b, a) == <<r, g, b, a>>

----------------------------------------------------------------------------
(* PoincareTexture: lattice, projection, circles *)

calculateIv(i) == vec3(CosTable[i + 1], SinTable[i + 1], 0)

\* vec3(0,0,1) * sinh(dh) + iv * cosh(dh)
calculateIvv(iv, dh) ==
    vec3(MulFix(iv.x, cosh(dh)), MulFix(iv.y, cosh(dh)), sinh(dh) + MulFix(iv.z, cosh(dh)))

\* vec3(0,0,1) * cosh(dh) + ivv * sinh(dh)
calculateP(ivv, dh) ==
    vec3(MulFix(ivv.x, sinh(dh)), MulFix(ivv.y, sinh(dh)), cosh(dh) + MulFix(ivv.z, sinh(dh)))

\* calcH with the last distance left out (dh < 5.5)
calcH_exclusive(hp) ==
    LET RECURSIVE inner(_, _)
        inner(iv, dh) ==
            IF dh < DhLast
            THEN <<calculateP(calculateIvv(iv, dh), dh)>> \o inner(iv, dh + FixScale)
            ELSE <<>>
        RECURSIVE outer(_)
        outer(i) ==
            IF i < NumDirections
            THEN inner(calculateIv(i), DhFirst) \o outer(i + 1)
            ELSE <<>>
    IN hp \o outer(0)

\* hyperbolicPoints receives what the two loops push_back:
\* inner(iv, dh): while (dh <= 5.5) { hyperbolicPoints.push_back(p); dh++; }
\* outer(i):      while (i < 9) { iv = calculateIv(i); dh = 0.5; inner loop; i++; }
calcH(hp) ==
    LET RECURSIVE inner(_, _)
        inner(iv, dh) ==
            IF dh <= DhLast
            THEN <<calculateP(calculateIvv(iv, dh), dh)>> \o inner(iv, dh + FixScale)
            ELSE <<>>
        RECURSIVE outer(_)
        outer(i) ==
            IF i < NumDirections
            THEN inner(calculateIv(i), DhFirst) \o outer(i + 1)
            ELSE <<>>
    IN hp \o outer(0)

calculateOszto(point) == point.z + FixScale

\* poincarePoints.emplace_back(point.x / oszto, point.y / oszto)
addPP(pp, point, oszto) == Append(pp, vec2(DivFix(point.x, oszto), DivFix(point.y, oszto)))

\* for each hyperbolic point in order: addPP(*it, calculateOszto(*it))
calcP(hp, pp) ==
    pp \o [k \in 1..Len(hp) |-> addPP(<<>>, hp[k], calculateOszto(hp[k]))[1]]

\* length of a vec2
length(v) == Sqrt(Pow2(v.x) + Pow2(v.y))

\* calculateR with the two terms exchanged: (r - 1/r) / 2
calculateR_flipped(point) ==
    (length(point) - DivFix(FixScale, length(point))) \div 2

\* (1/r - r) / 2 with r the norm of the point
calculateR(point) ==
    (DivFix(FixScale, length(point)) - length(point)) \div 2

normalize(v) == vec2(DivFix(v.x, length(v)), DivFix(v.y, length(v)))

\* circleOf with the centre moved towards the origin: *it - i * r
circleOf_inward(q) ==
    LET r == calculateR(q)
        i == normalize(q)
    IN vec3(q.x - MulFix(i.x, r), q.y - MulFix(i.y, r), r)

\* one circle (centre x, centre y, radius) from one disk point
circleOf(q) ==
    LET r == calculateR(q)
        i == normalize(q)
    IN vec3(q.x + MulFix(i.x, r), q.y + MulFix(i.y, r), r)

\* for each Poincare point in order: circles.emplace_back(origo.x, origo.y, r)
calcC(pp, c) ==
    c \o [k \in 1..Len(pp) |-> circleOf(pp[k])]

\* math(): the three vectors after calcH(); calcP(); calcC(); on the given members
math(hp, pp, c) ==
    LET hp2 == calcH(hp)
        pp2 == calcP(hp2, pp)
        c2 == calcC(pp2, c)
    IN [hyperbolicPoints |-> hp2, poincarePoints |-> pp2, circles |-> c2]

----------------------------------------------------------------------------
(* PoincareTexture: classification and rasterisation *)

Black == vec4(0, 0, 0, 1)
Yellow == vec4(1, 1, 0, 1)
Blue == vec4(0, 0, 1, 1)

\* sqrtf(powf(point.x - circle.x, 2) + powf(point.y - circle.y, 2))
calculateDistance(point, circle) ==
    Sqrt(Pow2(point.x - circle.x) + Pow2(point.y - circle.y))

\* the number of circles, over the whole vector, for which count++ is executed:
\* if (calculateDistance(point, *it) <= it->z) count++;
countCircles(circ, point) ==
    Cardinality({k \in 1..Len(circ) : calculateDistance(point, circ[k]) <= circ[k].z})

manyCircles(circ, point) == countCircles(circ, point)

\* (float) c / (float) textureWidth * 2 - 1.0f
Normalized(c, textureWidth) ==
    DivFix(FromInt(c), FromInt(textureWidth)) * 2 - FixScale

\* PixelColour with the unit circle itself painted black (>= 1)
PixelColour_ge(circ, xC, yC, textureWidth) ==
    LET x == Normalized(xC, textureWidth)
        y == Normalized(yC, textureWidth)
        count == manyCircles(circ, vec2(x, y))
    IN IF Sqrt(Pow2(x) + Pow2(y)) >= FixScale THEN Black
       ELSE IF count % 2 = 0 THEN Yellow
       ELSE Blue

\* body of the inner loop of RenderToTexture: the colour of pixel (xC, yC)
PixelColour(circ, xC, yC, textureWidth) ==
    LET x == Normalized(xC, textureWidth)
        y == Normalized(yC, textureWidth)
        count == manyCircles(circ, vec2(x, y))
    IN IF Sqrt(Pow2(x) + Pow2(y)) > FixScale THEN Black
       ELSE IF count % 2 = 0 THEN Yellow
       ELSE Blue

\* distance between two rasterised rows or columns of an axis of n pixels
Stride(n) == IF n <= FullGrid THEN 1 ELSE n \div ProbesPerAxis

\* RenderToTexture with the two loops exchanged (columns outside, rows inside)
RenderToTexture_colMajor(circ, textureWidth, textureHeight) ==
    LET RECURSIVE inner(_, _)
        inner(xC, yC) ==
            IF yC < textureHeight
            THEN <<PixelColour(circ, xC, yC, textureWidth)>> \o inner(xC, yC + Stride(textureHeight))
            ELSE <<>>
        RECURSIVE outer(_)
        outer(xC) ==
            IF xC < textureWidth
            THEN inner(xC, 0) \o outer(xC + Stride(textureWidth))
            ELSE <<>>
    IN outer(0)

\* textureData starts empty and receives what the two loops append:
\* inner(xC, yC): while (xC < textureWidth) { textureData.emplace_back(colour); xC++; }
\* outer(yC):     while (yC < textureHeight) { xC = 0; inner loop; yC++; }
RenderToTexture(circ, textureWidth, textureHeight) ==
    LET RECURSIVE inner(_, _)
        inner(xC, yC) ==
            IF xC < textureWidth
            THEN <<PixelColour(circ, xC, yC, textureWidth)>> \o inner(xC + Stride(textureWidth), yC)
            ELSE <<>>
        RECURSIVE outer(_)
        outer(yC) ==
            IF yC < textureHeight
            THEN inner(0, yC) \o outer(yC + Stride(textureHeight))
            ELSE <<>>
    IN outer(0)

\* Texture::create(width, height, image): the texture resource holds what it was given
create(w, h, im) == [w |-> w, h |-> h, im |-> im]

\* PoincareTexture(width, height)
PoincareTexture(w, h) ==
    LET m == math(<<>>, <<>>, <<>>)
    IN /\ width = w
       /\ height = h
       /\ hyperbolicPoints = m.hyperbolicPoints
       /\ poincarePoints = m.poincarePoints
       /\ circles = m.circles
       /\ mathCalls = 1
       /\ texture = create(w, h, RenderToTexture(circles, w, h))

\* increaseResolution rasterising at the size held before the change
increaseResolution_oldSize(increaseBy) ==
    /\ width' = width + increaseBy
    /\ height' = height + increaseBy
    /\ texture' = create(width', height', RenderToTexture(circles, width, height))
    /\ UNCHANGED <<hyperbolicPoints, poincarePoints, circles, mathCalls>>

\* increaseResolution running math() again on the vectors it already holds
increaseResolution_remath(increaseBy) ==
    LET m == math(hyperbolicPoints, poincarePoints, circles)
    IN /\ width' = width + increaseBy
       /\ height' = height + increaseBy
       /\ hyperbolicPoints' = m.hyperbolicPoints
       /\ poincarePoints' = m.poincarePoints
       /\ circles' = m.circles
       /\ mathCalls' = mathCalls + 1
       /\ texture' = create(width', height', RenderToTexture(circles', width', height'))

\* increaseResolution changing the width only
increaseResolution_widthOnly(increaseBy) ==
    /\ width' = width + increaseBy
    /\ height' = height
    /\ texture' = create(width', height', RenderToTexture(circles, width', height'))
    /\ UNCHANGED <<hyperbolicPoints, poincarePoints, circles, mathCalls>>

increaseResolution(increaseBy) ==
    /\ width' = width + increaseBy
    /\ height' = height + increaseBy
    /\ texture' = create(width', height', RenderToTexture(circles, width', height'))
    /\ UNCHANGED <<hyperbolicPoints, poincarePoints, circles, mathCalls>>

\* glTexParameteri(MIN_FILTER / MAG_FILTER, filteringMode) on the texture
setFilteringMode(mode) ==
    /\ filteringMode' = mode
    /\ UNCHANGED textureVars

----------------------------------------------------------------------------
(* Star: vertex data; uv coordinates are stored doubled (0, 1, 2 for 0, 0.5, 1) *)

VertexData(px, py, u2, v2) == [position |-> vec2(px, py), uv |-> vec2(u2, v2)]

updateV ==
    [k \in 0..9 |->
        CASE k = 0 -> VertexData(50, 30, 1, 1)
          [] k = 1 -> VertexData(70, 30, 2, 1)
          [] k = 2 -> VertexData(90, 70, 2, 2)
          [] k = 3 -> VertexData(50, 50, 1, 2)
          [] k = 4 -> VertexData(10, 70, 0, 2)
          [] k = 5 -> VertexData(30, 30, 0, 1)
          [] k = 6 -> VertexData(10, -10, 0, 0)
          [] k = 7 -> VertexData(50, 10, 1, 0)
          [] k = 8 -> VertexData(90, -10, 2, 0)
          [] k = 9 -> VertexData(70, 30, 2, 1)]

slim(v, s) ==
    IF v.uv.x = 1 /\ v.uv.y = 2 THEN [v EXCEPT !.position.y = @ - s]
    ELSE IF v.uv.x = 1 /\ v.uv.y = 0 THEN [v EXCEPT !.position.y = @ + s]
    ELSE IF v.uv.x = 0 /\ v.uv.y = 1 THEN [v EXCEPT !.position.x = @ + s]
    ELSE IF v.uv.x = 2 /\ v.uv.y = 1 THEN [v EXCEPT !.position.x = @ - s]
    ELSE v

schlankheitsfaktor(s) ==
    data' = [k \in 0..9 |-> slim(data[k], s)]

----------------------------------------------------------------------------
(* Application: onInitialization and onKeyboard *)

onInitialization ==
    /\ PoincareTexture(InitialWidth, InitialHeight)
    /\ data = updateV
    /\ filteringMode = "unset"
    /\ isAnimating = FALSE
    /\ lastCall = "PoincareTexture"

\* the model stops slimming or widening the star MaxSlim steps away from its initial shape
SlimInRange(s) == Abs(data[3].position.y - s - 50) <= MaxSlim * SlimStep

\* the model stops changing the resolution MaxResSteps steps away from the initial one
ResInRange(by) == Abs(width + by - InitialWidth) <= MaxResSteps * ResolutionStep

Key_h ==
    /\ SlimInRange(0 - SlimStep)
    /\ schlankheitsfaktor(0 - SlimStep)
    /\ lastCall' = "schlankheitsfaktor"
    /\ UNCHANGED <<textureVars, filteringMode, isAnimating>>

Key_H ==
    /\ SlimInRange(SlimStep)
    /\ schlankheitsfaktor(SlimStep)
    /\ lastCall' = "schlankheitsfaktor"
    /\ UNCHANGED <<textureVars, filteringMode, isAnimating>>

Key_a ==
    /\ isAnimating' = ~isAnimating
    /\ lastCall' = "animate"
    /\ UNCHANGED <<textureVars, filteringMode, data>>

Key_r ==
    /\ ResInRange(ResolutionStep)
    /\ increaseResolution(ResolutionStep)
    /\ lastCall' = "increaseResolution"
    /\ UNCHANGED <<filteringMode, data, isAnimating>>

Key_R ==
    /\ ResInRange(0 - ResolutionStep)
    /\ increaseResolution(0 - ResolutionStep)
    /\ lastCall' = "increaseResolution"
    /\ UNCHANGED <<filteringMode, data, isAnimating>>

Key_t ==
    /\ setFilteringMode("GL_NEAREST")
    /\ lastCall' = "setFilteringMode"
    /\ UNCHANGED <<data, isAnimating>>

Key_T ==
    /\ setFilteringMode("GL_LINEAR")
    /\ lastCall' = "setFilteringMode"
    /\ UNCHANGED <<data, isAnimating>>

\* any other key: no branch of onKeyboard is taken
Key_other ==
    /\ lastCall' = "none"
    /\ UNCHANGED <<textureVars, filteringMode, data, isAnimating>>

onKeyboard ==
    \/ Key_h
    \/ Key_H
    \/ Key_a
    \/ Key_r
    \/ Key_R
    \/ Key_t
    \/ Key_T
    \/ Key_other

Init == onInitialization

Next == onKeyboard

Spec == Init /\ [][Next]_vars

----------------------------------------------------------------------------
(* The PoincareTexture class on its own: any small size, any small step *)

Sizes == 1..MaxDim
Steps == {0 - 1, 1}

InitTexture ==
    /\ \E w \in Sizes, h \in Sizes : PoincareTexture(w, h)
    /\ data = updateV
    /\ filteringMode = "unset"
    /\ isAnimating = FALSE
    /\ lastCall = "PoincareTexture"

\* the model keeps both dimensions between -1 and MaxDim
DimInRange(by) ==
    /\ width + by >= 0 - 1 /\ width + by <= MaxDim
    /\ height + by >= 0 - 1 /\ height + by <= MaxDim

CallIncreaseResolution ==
    \E by \in Steps :
        /\ DimInRange(by)
        /\ increaseResolution(by)
        /\ lastCall' = "increaseResolution"
        /\ UNCHANGED <<filteringMode, data, isAnimating>>

CallSetFilteringMode ==
    \E mode \in {"GL_NEAREST", "GL_LINEAR"} :
        /\ setFilteringMode(mode)
        /\ lastCall' = "setFilteringMode"
        /\ UNCHANGED <<data, isAnimating>>

NextTexture ==
    \/ CallIncreaseResolution
    \/ CallSetFilteringMode

SpecTexture == InitTexture /\ [][NextTexture]_vars

----------------------------------------------------------------------------
(* Properties *)

\* the normalized coordinate of pixel (xc, yc)
PixelPoint(xc, yc, textureWidth) ==
    vec2(Normalized(xc, textureWidth), Normalized(yc, textureWidth))

\* position in the stored grid of a rasterised pixel
Columns(w) == (w + Stride(w) - 1) \div Stride(w)
IsSampled(xc, yc, w, h) == xc % Stride(w) = 0 /\ yc % Stride(h) = 0
SampleIndex(xc, yc, w, h) == (yc \div Stride(h)) * Columns(w) + xc \div Stride(w) + 1

\* C1: for positive width and height the grid held by the texture resource has
\* exactly width * height colours, pixel (xc, yc) at index yc * width + xc, each
\* the colour computed for the current size; the resource has the current size.
C1_GridExact ==
    (width > 0 /\ height > 0 /\ width <= FullGrid /\ height <= FullGrid) =>
        /\ texture.w = width
        /\ texture.h = height
        /\ Len(texture.im) = width * height
        /\ \A xc \in 0..(width - 1), yc \in 0..(height - 1) :
              texture.im[yc * width + xc + 1] = PixelColour(circles, xc, yc, width)

\* a non-square grid with more than one row and column, just regenerated, with two colours
C1_Witness ==
    /\ lastCall = "increaseResolution"
    /\ width > 1 /\ height > 1 /\ width # height
    /\ Len(texture.im) = width * height
    /\ \E k \in 1..Len(texture.im) : texture.im[k] # texture.im[1]

\* the circles that contain p: distance to the centre at most the radius
Containing(p) ==
    {k \in 1..Len(circles) :
        /\ circles[k].z >= 0
        /\ Pow2(p.x - circles[k].x) + Pow2(p.y - circles[k].y) <= Pow2(circles[k].z)}

Outside(p) == Pow2(p.x) + Pow2(p.y) > Pow2(FixScale)

RuleColour(p) ==
    IF Outside(p) THEN Black
    ELSE IF Cardinality(Containing(p)) % 2 = 0 THEN Yellow
    ELSE Blue

\* C2: every pixel is black if its point is strictly outside the unit circle,
\* otherwise yellow if an even number of circles contain it, otherwise blue.
C2_ColourRule ==
    (width > 0 /\ height > 0 /\ width <= FullGrid /\ height <= FullGrid) =>
        \A xc \in 0..(width - 1), yc \in 0..(height - 1) :
            /\ texture.im[yc * width + xc + 1] \in {Black, Yellow, Blue}
            /\ texture.im[yc * width + xc + 1] = RuleColour(PixelPoint(xc, yc, width))

\* a grid with a pixel exactly on the unit circle painted by parity, a black and a blue pixel
C2_Witness ==
    /\ width > 0 /\ height > 0 /\ Len(texture.im) = width * height
    /\ \E xc \in 0..(width - 1), yc \in 0..(height - 1) :
          LET p == PixelPoint(xc, yc, width)
          IN /\ Pow2(p.x) + Pow2(p.y) = Pow2(FixScale)
             /\ texture.im[yc * width + xc + 1] # Black
    /\ \E k \in 1..Len(texture.im) : texture.im[k] = Black
    /\ \E k \in 1..Len(texture.im) : texture.im[k] = Blue

\* the texture a newly constructed PoincareTexture of size (w, h) hands to create
FreshCircles == math(<<>>, <<>>, <<>>).circles
FreshTexture(w, h) == create(w, h, RenderToTexture(FreshCircles, w, h))

\* C3: whatever resolution changes led to the current size, the texture is the
\* one a freshly constructed PoincareTexture of that size produces.
C3_SameAsFresh == texture = FreshTexture(width, height)

\* a non-empty grid produced by a resolution change
C3_Witness ==
    /\ lastCall = "increaseResolution"
    /\ width > 1 /\ height > 1
    /\ Len(texture.im) > 1

\* C4 (as stated): width and height stay positive and no texture is created
\* with a zero or negative dimension.
C4_PositiveSize ==
    /\ width > 0
    /\ height > 0
    /\ texture.w > 0
    /\ texture.h > 0

C6_LatticeOrder ==
    /\ Len(hyperbolicPoints) = 54
    /\ Len(poincarePoints) = 54
    /\ Len(circles) = 54
    /\ \A i \in 0..8, j \in 0..5 :
          LET dh == DhFirst + j * FixScale
          IN hyperbolicPoints[6 * i + j + 1] = calculateP(calculateIvv(calculateIv(i), dh), dh)
    /\ \A k \in 1..54 :
          /\ poincarePoints[k] = vec2(DivFix(hyperbolicPoints[k].x, hyperbolicPoints[k].z + FixScale),
                                      DivFix(hyperbolicPoints[k].y, hyperbolicPoints[k].z + FixScale))
          /\ circles[k] = circleOf(poincarePoints[k])

\* the constructor has run and the last lattice point lies at distance 5.5 in direction 320
C6_Witness ==
    /\ mathCalls = 1
    /\ Len(hyperbolicPoints) > 0
    /\ hyperbolicPoints[Len(hyperbolicPoints)] = calculateP(calculateIvv(calculateIv(8), DhLast), DhLast)

\* tolerance of the hyperboloid constraint, relative to z^2 (double scale)
HyperboloidTol == 5 * FixScale

\* C7 (as stated): every lattice point has z >= cosh(0.5) > 1 and lies on the
\* hyperboloid x^2 + y^2 = z^2 - 1; the constraint is checked divided by z^2.
C7_OnHyperboloid ==
    \A k \in 1..Len(hyperbolicPoints) :
        LET p == hyperbolicPoints[k]
            u == DivFix(p.x, p.z)
            v == DivFix(p.y, p.z)
            w == DivFix(FixScale, p.z)
        IN /\ p.z >= cosh(DhFirst)
           /\ cosh(DhFirst) > FixScale
           /\ Abs(Pow2(u) + Pow2(v) + Pow2(w) - Pow2(FixScale)) <= HyperboloidTol

\* C8: the origin is outside every circle, its count is 0, and pixel (150, 150)
\* of the 300 x 300 grid, whose point is the origin, is yellow.
C8_OriginYellow ==
    /\ \A k \in 1..Len(circles) :
          Pow2(0 - circles[k].x) + Pow2(0 - circles[k].y) > Pow2(circles[k].z)
    /\ countCircles(circles, vec2(0, 0)) = 0
    /\ (width = 300 /\ height = 300) =>
          /\ PixelPoint(150, 150, width) = vec2(0, 0)
          /\ PixelColour(circles, 150, 150, width) = Yellow
          /\ IsSampled(150, 150, width, height) =>
                texture.im[SampleIndex(150, 150, width, height)] = Yellow

\* the 300 x 300 grid with its 54 circles
C8_Witness ==
    /\ width = 300 /\ height = 300
    /\ texture.w = 300 /\ texture.h = 300
    /\ Len(circles) = 54
    /\ Len(texture.im) > 0

\* C9: every disk point has norm strictly between 0 and 1, and every stored
\* radius is strictly positive, hence equal to its magnitude.
C9_InsideDisk ==
    /\ Len(poincarePoints) = Len(circles)
    /\ \A k \in 1..Len(poincarePoints) :
          LET q == poincarePoints[k]
          IN /\ Pow2(q.x) + Pow2(q.y) > 0
             /\ Pow2(q.x) + Pow2(q.y) < Pow2(FixScale)
             /\ circles[k].z > 0
             /\ circles[k].z = Abs(circles[k].z)

\* the disk points and circles exist, the outermost with the smallest radius
C9_Witness ==
    /\ Len(poincarePoints) = 54
    /\ Len(circles) = 54
    /\ circles[6].z < circles[1].z

\* C10: width = height = 300 + 100 k in every state; a step changes both by the
\* same +100 or -100, or by nothing; only increaseResolution changes them, and
\* no step changes the circles; so y / width is y / height for every row.
C10_Square ==
    /\ [](/\ width = height
          /\ (width - InitialWidth) % ResolutionStep = 0
          /\ width > 0 =>
                \A yc \in {0, width \div 2, width - 1} :
                    Normalized(yc, width) = Normalized(yc, height))
    /\ [][/\ width' - width = height' - height
          /\ width' - width \in {0, ResolutionStep, 0 - ResolutionStep}
          /\ lastCall' # "increaseResolution" => (width' = width /\ height' = height)
          /\ lastCall' = "increaseResolution" => width' # width
          /\ circles' = circles]_vars

\* the resolution has been raised and lowered away from 300 x 300
C10_Witness ==
    /\ lastCall = "increaseResolution"
    /\ width = InitialWidth + 2 * ResolutionStep
    /\ height = InitialHeight + 2 * ResolutionStep

====
